---------------------------- MODULE Spec2Model ----------------------------
(***************************************************************************)
(* wgpucheck: the adapter report of src/main.rs.                           *)
(*                                                                         *)
(* Two specifications:                                                     *)
(*   Spec        one run of main: adapter acquisition, then one of the     *)
(*               three renderers writing to standard output line by line;  *)
(*   SpecFormat  the pure helpers pretty_format (u64 and u32) and          *)
(*               vendor_to_string applied to inputs drawn from bounded     *)
(*               sets.                                                     *)
(*                                                                         *)
(* TLC's integers are 32-bit, the program's are u32 and u64, so an unsigned *)
(* integer is a little-endian sequence of 10-bit limbs (digits base 1024): *)
(* 4 limbs for a u32 (the top one below 4), 7 limbs for a u64 (the top one *)
(* below 16).  Strings are TLA+ strings; \o concatenates.                  *)
(***************************************************************************)
EXTENDS Integers, Sequences, FiniteSets, TLC

VARIABLES
    output,      \* args.output: "table" | "json" | "markdown"
    pc,          \* position of main
    attempts,    \* number of request_adapter calls made
    adapter,     \* the acquired adapter: [info, limits], or NoAdapter
    stdout,      \* the writes made to standard output, in order
    exit_code,   \* NotExited while running, then the process exit code
    call,        \* SpecFormat: the helper call under test, [fn, arg]
    ret          \* SpecFormat: its return value, NoRet before it returns

vars == <<output, pc, attempts, adapter, stdout, exit_code, call, ret>>

-----------------------------------------------------------------------------
(* Unsigned integers as limb sequences.                                    *)

Limb == 0..1023

\* x^k for the small powers used below.
RECURSIVE Pow(_, _)
Pow(x, k) == IF k = 0 THEN 1 ELSE x * Pow(x, k - 1)

\* A sequence of len zeros.
RECURSIVE Zeros(_)
Zeros(len) == IF len = 0 THEN << >> ELSE <<0>> \o Zeros(len - 1)

\* The limbs of a small natural i (i < 2^31), to a width of len >= 4 limbs.
Limbs(i, len) ==
    << i % 1024, (i \div 1024) % 1024, (i \div (1024 * 1024)) % 1024,
       i \div (1024 * 1024 * 1024) >> \o Zeros(len - 4)

U32(i) == Limbs(i, 4)
U64(i) == Limbs(i, 7)

IsZero(a) == \A k \in 1..Len(a) : a[k] = 0

\* a >= b, for a and b of one width: decided at the most significant limb
\* where they differ.
GE(a, b) ==
    \/ a = b
    \/ \E k \in 1..Len(a) :
         /\ a[k] > b[k]
         /\ \A j \in (k + 1)..Len(a) : a[j] = b[j]

\* Limbs k.. of a + b + carry; the top limb keeps the carry out of the width.
RECURSIVE AddFrom(_, _, _, _)
AddFrom(a, b, k, carry) ==
    LET sum == a[k] + b[k] + carry
    IN  IF k = Len(a) THEN <<sum>>
        ELSE <<sum % 1024>> \o AddFrom(a, b, k + 1, sum \div 1024)

\* a + b, for a and b of one width.
Add(a, b) == AddFrom(a, b, 1, 0)

\* Limbs k.. of a * m + carry, for a small number m; one limb wider than a.
RECURSIVE MulFrom(_, _, _, _)
MulFrom(a, m, k, carry) ==
    IF k > Len(a) THEN <<carry>>
    ELSE LET prod == a[k] * m + carry
         IN  <<prod % 1024>> \o MulFrom(a, m, k + 1, prod \div 1024)

MulSmall(a, m) == MulFrom(a, m, 1, 0)

\* Long division of a by the small number d, from the top limb down: the
\* quotient's limbs 1..k and the remainder, given the remainder rem carried
\* into limb k.
RECURSIVE DivFrom(_, _, _, _)
DivFrom(a, d, k, rem) ==
    IF k = 0 THEN [quot |-> << >>, rem |-> rem]
    ELSE LET cur  == rem * 1024 + a[k]
             rest == DivFrom(a, d, k - 1, cur % d)
         IN  [quot |-> Append(rest.quot, cur \div d), rem |-> rest.rem]


\* Number of significant bits of a limb.
BitLen(x) == CHOOSE b \in 0..10 : x < Pow(2, b) /\ (b = 0 \/ x >= Pow(2, b - 1))

-----------------------------------------------------------------------------
(* Formatting: what format! does with {}, {:X} and {:.1}.                  *)

\* "{}" of an unsigned integer: its decimal digits, no leading zeros.  A
\* number below 2^30 is within the range of ToString; a larger one gives up
\* its last digit by long division first.
RECURSIVE Display(_)
Display(n) ==
    IF \A k \in 4..Len(n) : n[k] = 0
    THEN ToString(n[1] + 1024 * n[2] + 1024 * 1024 * n[3])
    ELSE LET d == DivFrom(n, 10, Len(n), 0)
         IN  Display(d.quot) \o ToString(d.rem)

HexDigit(d) == SubSeq("0123456789ABCDEF", d + 1, d + 1)

\* "{:X}" of an unsigned integer: uppercase hexadecimal, no prefix, no
\* leading zeros.
RECURSIVE UpperHex(_)
UpperHex(n) ==
    LET d == DivFrom(n, 16, Len(n), 0)
    IN  IF IsZero(d.quot) THEN HexDigit(d.rem)
        ELSE UpperHex(d.quot) \o HexDigit(d.rem)

\* `n as f64` for a u64 n: exact below 2^53; above, n keeps its 53 leading
\* bits, rounded to nearest, ties to the even mantissa.  The result is the
\* integer the f64 holds (2^64 has top limb 16).
AsF64(n) ==
    LET top  == IF n[7] # 0 THEN 60 + BitLen(n[7]) ELSE 50 + BitLen(n[6])
        s    == top - 53                      \* bits that do not fit
        low2 == n[1] + 1024 * n[2]            \* bits 0..19 of n
        low  == low2 % Pow(2, s)              \* the dropped bits
        kept == low2 - low
        cut  == [n EXCEPT ![1] = kept % 1024, ![2] = kept \div 1024]
        ulp  == Limbs(Pow(2, s), 7)
        up   == \/ 2 * low > Pow(2, s)
                \/ 2 * low = Pow(2, s) /\ (low2 \div Pow(2, s)) % 2 = 1
    IN  IF n[7] = 0 /\ n[6] < 8 THEN n
        ELSE IF up THEN Add(cut, ulp) ELSE cut

\* The index of the single non-zero limb of a power of 1024.
UnitLimb(unit) == CHOOSE k \in 1..Len(unit) : unit[k] # 0

\* f / unit in f64 for unit a power of 1024 (a power of two: the division
\* only changes the exponent, so it is exact).  The quotient is held as
\* its integer part and its binary fraction, the limbs of f below the
\* unit, most significant last.
DivF64(f, unit) ==
    LET k == UnitLimb(unit)
    IN  [int  |-> (f[k] + (IF k + 1 <= 7 THEN 1024 * f[k + 1] ELSE 0))
                  + (IF k + 2 <= 7 THEN 1024 * 1024 * f[k + 2] ELSE 0),
         frac |-> SubSeq(f, 1, k - 1)]

\* "{:.1}" of a non-negative f64 q: the decimal expansion of q cut after
\* one fractional digit, rounded to nearest on the exact binary value, an
\* exact tie to the even digit.
FmtOneDecimal(q) ==
    LET t      == MulSmall(q.frac, 10)        \* 10 * fraction
        k      == Len(q.frac)
        digit  == t[k + 1]                    \* first fractional digit
        above  == \/ t[k] > 512
                  \/ t[k] = 512 /\ \E j \in 1..(k - 1) : t[j] # 0
        tie    == t[k] = 512 /\ \A j \in 1..(k - 1) : t[j] = 0
        tenths == 10 * q.int + digit
                  + (IF above \/ (tie /\ digit % 2 = 1) THEN 1 ELSE 0)
    IN  ToString(tenths \div 10) \o "." \o ToString(tenths % 10)

-----------------------------------------------------------------------------
(* trait PrettyFormat                                                      *)

KB == U64(1024)
MB == <<0>> \o SubSeq(KB, 1, 6)     \* KB * 1024
GB == <<0>> \o SubSeq(MB, 1, 6)     \* MB * 1024
TB == <<0>> \o SubSeq(GB, 1, 6)     \* GB * 1024

\* pretty_format with every threshold tested by > instead of >=.
pretty_format_u64_strict(n) ==
    IF GE(n, TB) /\ n # TB      THEN FmtOneDecimal(DivF64(AsF64(n), TB)) \o " TB"
    ELSE IF GE(n, GB) /\ n # GB THEN FmtOneDecimal(DivF64(AsF64(n), GB)) \o " GB"
    ELSE IF GE(n, MB) /\ n # MB THEN FmtOneDecimal(DivF64(AsF64(n), MB)) \o " MB"
    ELSE IF GE(n, KB) /\ n # KB THEN FmtOneDecimal(DivF64(AsF64(n), KB)) \o " KB"
    ELSE Display(n) \o " B"

\* impl PrettyFormat for u64
pretty_format_u64(n) ==
    IF GE(n, TB)      THEN FmtOneDecimal(DivF64(AsF64(n), TB)) \o " TB"
    ELSE IF GE(n, GB) THEN FmtOneDecimal(DivF64(AsF64(n), GB)) \o " GB"
    ELSE IF GE(n, MB) THEN FmtOneDecimal(DivF64(AsF64(n), MB)) \o " MB"
    ELSE IF GE(n, KB) THEN FmtOneDecimal(DivF64(AsF64(n), KB)) \o " KB"
    ELSE Display(n) \o " B"

\* `*self as u64`: zero extension of a u32.
AsU64(n) == n \o <<0, 0, 0>>

\* impl PrettyFormat for u32
pretty_format_u32(n) == pretty_format_u64(AsU64(n))

-----------------------------------------------------------------------------
(* vendor_to_string                                                        *)

\* "{:x}": lowercase hexadecimal.
RECURSIVE LowerHex(_)
LowerHex(n) ==
    LET d == DivFrom(n, 16, Len(n), 0)
        c == SubSeq("0123456789abcdef", d.rem + 1, d.rem + 1)
    IN  IF IsZero(d.quot) THEN c ELSE LowerHex(d.quot) \o c

\* vendor_to_string with the fallback written with {:x}.
vendor_to_string_lower(vendor_id) ==
    CASE vendor_id = U32(4098)  -> "AMD"
      [] vendor_id = U32(4318)  -> "NVIDIA"
      [] vendor_id = U32(32902) -> "Intel"
      [] vendor_id = U32(5045)  -> "ARM"
      [] vendor_id = U32(20803) -> "Qualcomm"
      [] vendor_id = U32(4112)  -> "ImgTec"
      [] OTHER -> "Unknown (0x" \o LowerHex(vendor_id) \o ")"

vendor_to_string(vendor_id) ==
    CASE vendor_id = U32(4098)  -> "AMD"          \* 0x1002
      [] vendor_id = U32(4318)  -> "NVIDIA"       \* 0x10DE
      [] vendor_id = U32(32902) -> "Intel"        \* 0x8086
      [] vendor_id = U32(5045)  -> "ARM"          \* 0x13B5
      [] vendor_id = U32(20803) -> "Qualcomm"     \* 0x5143
      [] vendor_id = U32(4112)  -> "ImgTec"       \* 0x1010
      [] OTHER -> "Unknown (0x" \o UpperHex(vendor_id) \o ")"

-----------------------------------------------------------------------------
(* print_table_output.  Each element is the text of one println!, without  *)
(* its final newline and without the terminal styling (bold, underline,    *)
(* colours) that the colored crate wraps around it.                        *)

MAX_KEY_LEN == 30

\* "{: <max_key_len$}": key, left-aligned, padded with spaces up to the
\* width (never cut).
PadRight(key, width) ==
    IF Len(key) >= width THEN key
    ELSE key \o SubSeq("                                        ",
                       1, width - Len(key))

\* fn print_row: "{: <max_key_len$} {}".
print_row(max_key_len, key, value) == PadRight(key, max_key_len) \o " " \o value

\* The Adapter Information block with the vendor ID printed as it is.
TableAdapterInformation_rawvendor(info) ==
    << "\nAdapter Information",
       print_row(MAX_KEY_LEN, "Name:", info.name),
       print_row(MAX_KEY_LEN, "Backend:", info.backend),
       print_row(MAX_KEY_LEN, "Vendor:", Display(info.vendor)),
       print_row(MAX_KEY_LEN, "Device ID:", Display(info.device)),
       print_row(MAX_KEY_LEN, "Driver:", info.driver),
       print_row(MAX_KEY_LEN, "Driver Info:", info.driver_info) >>

\* The Adapter Information block of print_table_output.
TableAdapterInformation(info) ==
    << "\nAdapter Information",
       print_row(MAX_KEY_LEN, "Name:", info.name),
       print_row(MAX_KEY_LEN, "Backend:", info.backend),
       print_row(MAX_KEY_LEN, "Vendor:", vendor_to_string(info.vendor)),
       print_row(MAX_KEY_LEN, "Device ID:", Display(info.device)),
       print_row(MAX_KEY_LEN, "Driver:", info.driver),
       print_row(MAX_KEY_LEN, "Driver Info:", info.driver_info) >>

\* The Texture Limits block of print_table_output.
TableTextureLimits(limits) ==
    << "\nTexture Limits",
       print_row(MAX_KEY_LEN, "Max 1D Texture Size:",
                 Display(limits.max_texture_dimension_1d)),
       print_row(MAX_KEY_LEN, "Max 2D Texture Size:",
                 Display(limits.max_texture_dimension_2d)),
       print_row(MAX_KEY_LEN, "Max 3D Texture Size:",
                 Display(limits.max_texture_dimension_3d)),
       print_row(MAX_KEY_LEN, "Max Array Layers:",
                 Display(limits.max_texture_array_layers)) >>

\* The Binding Limits block of print_table_output.
TableBindingLimits(limits) ==
    << "\nBinding Limits",
       print_row(MAX_KEY_LEN, "Max Bind Groups:",
                 Display(limits.max_bind_groups)),
       print_row(MAX_KEY_LEN, "Max Bindings/Group:",
                 Display(limits.max_bindings_per_bind_group)),
       print_row(MAX_KEY_LEN, "Max Dynamic Uniform Buffers:",
                 Display(limits.max_dynamic_uniform_buffers_per_pipeline_layout)),
       print_row(MAX_KEY_LEN, "Max Dynamic Storage Buffers:",
                 Display(limits.max_dynamic_storage_buffers_per_pipeline_layout)) >>

\* The Resource Limits block of print_table_output.
TableResourceLimits(limits) ==
    << "\nResource Limits",
       print_row(MAX_KEY_LEN, "Max Sampled Textures:",
                 Display(limits.max_sampled_textures_per_shader_stage)),
       print_row(MAX_KEY_LEN, "Max Samplers:",
                 Display(limits.max_samplers_per_shader_stage)),
       print_row(MAX_KEY_LEN, "Max Storage Buffers:",
                 Display(limits.max_storage_buffers_per_shader_stage)),
       print_row(MAX_KEY_LEN, "Max Storage Textures:",
                 Display(limits.max_storage_textures_per_shader_stage)),
       print_row(MAX_KEY_LEN, "Max Uniform Buffers:",
                 Display(limits.max_uniform_buffers_per_shader_stage)) >>

\* The Buffer Limits block of print_table_output.
TableBufferLimits(limits) ==
    << "\nBuffer Limits",
       print_row(MAX_KEY_LEN, "Max Uniform Buffer Size:",
                 pretty_format_u32(limits.max_uniform_buffer_binding_size)),
       print_row(MAX_KEY_LEN, "Max Storage Buffer Size:",
                 pretty_format_u32(limits.max_storage_buffer_binding_size)),
       print_row(MAX_KEY_LEN, "Min Uniform Alignment:",
                 Display(limits.min_uniform_buffer_offset_alignment) \o " bytes"),
       print_row(MAX_KEY_LEN, "Min Storage Alignment:",
                 Display(limits.min_storage_buffer_offset_alignment) \o " bytes") >>

\* The Vertex Limits block with the label of the first row copied to the
\* second.
TableVertexLimits_dupkey(limits) ==
    << "\nVertex Limits",
       print_row(MAX_KEY_LEN, "Max Vertex Buffers:",
                 Display(limits.max_vertex_buffers)),
       print_row(MAX_KEY_LEN, "Max Vertex Buffers:",
                 Display(limits.max_vertex_attributes)),
       print_row(MAX_KEY_LEN, "Max Vertex Stride:",
                 Display(limits.max_vertex_buffer_array_stride) \o " bytes") >>

\* The Vertex Limits block of print_table_output.
TableVertexLimits(limits) ==
    << "\nVertex Limits",
       print_row(MAX_KEY_LEN, "Max Vertex Buffers:",
                 Display(limits.max_vertex_buffers)),
       print_row(MAX_KEY_LEN, "Max Vertex Attributes:",
                 Display(limits.max_vertex_attributes)),
       print_row(MAX_KEY_LEN, "Max Vertex Stride:",
                 Display(limits.max_vertex_buffer_array_stride) \o " bytes") >>

\* The Compute Limits block of print_table_output.
TableComputeLimits(limits) ==
    << "\nCompute Limits",
       print_row(MAX_KEY_LEN, "Max Workgroup Size X:",
                 Display(limits.max_compute_workgroup_size_x)),
       print_row(MAX_KEY_LEN, "Max Workgroup Size Y:",
                 Display(limits.max_compute_workgroup_size_y)),
       print_row(MAX_KEY_LEN, "Max Workgroup Size Z:",
                 Display(limits.max_compute_workgroup_size_z)),
       print_row(MAX_KEY_LEN, "Max Workgroup Invocations:",
                 Display(limits.max_compute_invocations_per_workgroup)),
       print_row(MAX_KEY_LEN, "Max Workgroup Storage:",
                 pretty_format_u32(limits.max_compute_workgroup_storage_size)),
       print_row(MAX_KEY_LEN, "Max Workgroups/Dimension:",
                 Display(limits.max_compute_workgroups_per_dimension)) >>

\* The Miscellaneous Limits block with the push-constant size written as
\* the markdown renderer writes it.
TableMiscLimits_bytes(limits) ==
    << "\nMiscellaneous Limits",
       print_row(MAX_KEY_LEN, "Max Push Constant Size:",
                 Display(limits.max_push_constant_size) \o " bytes"),
       print_row(MAX_KEY_LEN, "Max Inter-Stage Components:",
                 Display(limits.max_inter_stage_shader_components)) >>

\* The Miscellaneous Limits block of print_table_output.
TableMiscLimits(limits) ==
    << "\nMiscellaneous Limits",
       print_row(MAX_KEY_LEN, "Max Push Constant Size:",
                 pretty_format_u32(limits.max_push_constant_size)),
       print_row(MAX_KEY_LEN, "Max Inter-Stage Components:",
                 Display(limits.max_inter_stage_shader_components)) >>

print_table_output(info, limits) ==
    << "WGPU Adapter Info & Device Limits" >>
    \o TableAdapterInformation(info)
    \o TableTextureLimits(limits)
    \o TableBindingLimits(limits)
    \o TableResourceLimits(limits)
    \o TableBufferLimits(limits)
    \o TableVertexLimits(limits)
    \o TableComputeLimits(limits)
    \o TableMiscLimits(limits)

-----------------------------------------------------------------------------
(* print_markdown_output.  Each element is the text of one println!,       *)
(* without its final newline.                                              *)

\* The inline-code marker of markdown, the grave accent (U+0060).  A TLA+
\* string cannot hold that character; the apostrophe stands for it.
CodeMark == "'"

\* println!("| {key} | <mark>{value}<mark> |")
md_row(key, value) ==
    "| " \o key \o " | " \o CodeMark \o value \o CodeMark \o " |"

\* fn print_section: the heading, the table head, one line per row, and a
\* blank line.
print_section(section_title, rows) ==
    << "### " \o section_title \o "\n", "| Key | Value |", "|-----|-------|" >>
    \o [i \in 1..Len(rows) |-> md_row(rows[i][1], rows[i][2])]
    \o << "" >>

\* The adapter table of print_markdown_output.
MarkdownAdapterInformation(info) ==
    << "## WGPU Adapter Information\n",
       "| Key | Value |",
       "|-----|-------|",
       md_row("Name", info.name),
       md_row("Backend", info.backend),
       md_row("Vendor", vendor_to_string(info.vendor)),
       md_row("Device ID", Display(info.device)),
       md_row("Driver", info.driver),
       md_row("Driver Info", info.driver_info) >>

\* The Texture Limits section of print_markdown_output.
MarkdownTextureLimits(limits) ==
    print_section("Texture Limits",
        << <<"Max 1D Texture Size",
             Display(limits.max_texture_dimension_1d)>>,
           <<"Max 2D Texture Size",
             Display(limits.max_texture_dimension_2d)>>,
           <<"Max 3D Texture Size",
             Display(limits.max_texture_dimension_3d)>>,
           <<"Max Array Layers",
             Display(limits.max_texture_array_layers)>> >>)

\* The Binding Limits section of print_markdown_output.
MarkdownBindingLimits(limits) ==
    print_section("Binding Limits",
        << <<"Max Bind Groups",
             Display(limits.max_bind_groups)>>,
           <<"Max Bindings/Group",
             Display(limits.max_bindings_per_bind_group)>>,
           <<"Max Dynamic Uniform Buffers",
             Display(limits.max_dynamic_uniform_buffers_per_pipeline_layout)>>,
           <<"Max Dynamic Storage Buffers",
             Display(limits.max_dynamic_storage_buffers_per_pipeline_layout)>> >>)

\* The Resource Limits section of print_markdown_output.
MarkdownResourceLimits(limits) ==
    print_section("Resource Limits",
        << <<"Max Sampled Textures",
             Display(limits.max_sampled_textures_per_shader_stage)>>,
           <<"Max Samplers",
             Display(limits.max_samplers_per_shader_stage)>>,
           <<"Max Storage Buffers",
             Display(limits.max_storage_buffers_per_shader_stage)>>,
           <<"Max Storage Textures",
             Display(limits.max_storage_textures_per_shader_stage)>>,
           <<"Max Uniform Buffers",
             Display(limits.max_uniform_buffers_per_shader_stage)>> >>)

\* The Buffer Limits section of print_markdown_output.
MarkdownBufferLimits(limits) ==
    print_section("Buffer Limits",
        << <<"Max Uniform Buffer Size",
             pretty_format_u32(limits.max_uniform_buffer_binding_size)>>,
           <<"Max Storage Buffer Size",
             pretty_format_u32(limits.max_storage_buffer_binding_size)>>,
           <<"Min Uniform Alignment",
             Display(limits.min_uniform_buffer_offset_alignment) \o " bytes">>,
           <<"Min Storage Alignment",
             Display(limits.min_storage_buffer_offset_alignment) \o " bytes">> >>)

\* The Vertex Limits section of print_markdown_output.
MarkdownVertexLimits(limits) ==
    print_section("Vertex Limits",
        << <<"Max Vertex Buffers",
             Display(limits.max_vertex_buffers)>>,
           <<"Max Vertex Attributes",
             Display(limits.max_vertex_attributes)>>,
           <<"Max Vertex Stride",
             Display(limits.max_vertex_buffer_array_stride) \o " bytes">> >>)

\* The Compute Limits section of print_markdown_output.
MarkdownComputeLimits(limits) ==
    print_section("Compute Limits",
        << <<"Max Workgroup Size X",
             Display(limits.max_compute_workgroup_size_x)>>,
           <<"Max Workgroup Size Y",
             Display(limits.max_compute_workgroup_size_y)>>,
           <<"Max Workgroup Size Z",
             Display(limits.max_compute_workgroup_size_z)>>,
           <<"Max Workgroup Invocations",
             Display(limits.max_compute_invocations_per_workgroup)>>,
           <<"Max Workgroup Storage",
             pretty_format_u32(limits.max_compute_workgroup_storage_size)>>,
           <<"Max Workgroups/Dimension",
             Display(limits.max_compute_workgroups_per_dimension)>> >>)

\* The Miscellaneous Limits section with the push-constant size passed
\* through the byte-size formatter, as the table renderer does.
MarkdownMiscLimits_pretty(limits) ==
    print_section("Miscellaneous Limits",
        << <<"Max Push Constant Size",
             pretty_format_u32(limits.max_push_constant_size)>>,
           <<"Max Inter-Stage Components",
             Display(limits.max_inter_stage_shader_components)>> >>)

\* The Miscellaneous Limits section of print_markdown_output.
MarkdownMiscLimits(limits) ==
    print_section("Miscellaneous Limits",
        << <<"Max Push Constant Size",
             Display(limits.max_push_constant_size) \o " bytes">>,
           <<"Max Inter-Stage Components",
             Display(limits.max_inter_stage_shader_components)>> >>)

\* print_markdown_output with the Vertex Limits section ahead of the Buffer
\* Limits section.
print_markdown_output_swapped(info, limits) ==
    MarkdownAdapterInformation(info)
    \o << "## WGPU Device Limits\n" >>
    \o MarkdownTextureLimits(limits)
    \o MarkdownBindingLimits(limits)
    \o MarkdownResourceLimits(limits)
    \o MarkdownVertexLimits(limits)
    \o MarkdownBufferLimits(limits)
    \o MarkdownComputeLimits(limits)
    \o MarkdownMiscLimits(limits)

print_markdown_output(info, limits) ==
    MarkdownAdapterInformation(info)
    \o << "## WGPU Device Limits\n" >>
    \o MarkdownTextureLimits(limits)
    \o MarkdownBindingLimits(limits)
    \o MarkdownResourceLimits(limits)
    \o MarkdownBufferLimits(limits)
    \o MarkdownVertexLimits(limits)
    \o MarkdownComputeLimits(limits)
    \o MarkdownMiscLimits(limits)

-----------------------------------------------------------------------------
(* The JSON report: struct GpuReport and serde_json::to_string_pretty.     *)

\* Option<&str>: None is the empty sequence, Some(s) is <<s>>.
None == << >>

GpuReport(adapter_info, limits, notes) ==
    [adapter_info |-> adapter_info, limits |-> limits, notes |-> notes]

\* A JSON string (the strings of the model need no escaping).
JsonString(str) == "\"" \o str \o "\""

RECURSIVE JoinMembers(_, _, _)
JoinMembers(members, indent, i) ==
    indent \o JsonString(members[i][1]) \o ": " \o members[i][2]
    \o (IF i = Len(members) THEN ""
        ELSE ",\n" \o JoinMembers(members, indent, i + 1))

\* A JSON object as the pretty formatter writes it: one member per line,
\* two more spaces of indentation than the line that opens it.
JsonObject(members, indent) ==
    IF Len(members) = 0 THEN "{}"
    ELSE "{\n" \o JoinMembers(members, indent \o "  ", 1) \o "\n" \o indent \o "}"

\* wgpu::AdapterInfo, serialized by the derive of the wgpu crate: one member
\* per field.  The fields are those main.rs reads; the numbers stay numbers.
SerializeAdapterInfo(info, indent) ==
    JsonObject(<< <<"name", JsonString(info.name)>>,
                  <<"backend", JsonString(info.backend)>>,
                  <<"vendor", Display(info.vendor)>>,
                  <<"device", Display(info.device)>>,
                  <<"driver", JsonString(info.driver)>>,
                  <<"driver_info", JsonString(info.driver_info)>> >>, indent)

\* The fields of wgpu::Limits that main.rs reads, in the order it prints them.
LimitFields ==
    << "max_texture_dimension_1d", "max_texture_dimension_2d",
       "max_texture_dimension_3d", "max_texture_array_layers",
       "max_bind_groups", "max_bindings_per_bind_group",
       "max_dynamic_uniform_buffers_per_pipeline_layout",
       "max_dynamic_storage_buffers_per_pipeline_layout",
       "max_sampled_textures_per_shader_stage", "max_samplers_per_shader_stage",
       "max_storage_buffers_per_shader_stage",
       "max_storage_textures_per_shader_stage",
       "max_uniform_buffers_per_shader_stage",
       "max_uniform_buffer_binding_size", "max_storage_buffer_binding_size",
       "min_uniform_buffer_offset_alignment",
       "min_storage_buffer_offset_alignment",
       "max_vertex_buffers", "max_vertex_attributes",
       "max_vertex_buffer_array_stride",
       "max_compute_workgroup_size_x", "max_compute_workgroup_size_y",
       "max_compute_workgroup_size_z", "max_compute_invocations_per_workgroup",
       "max_compute_workgroup_storage_size",
       "max_compute_workgroups_per_dimension",
       "max_push_constant_size", "max_inter_stage_shader_components" >>

\* wgpu::Limits, serialized by the derive of the wgpu crate.
SerializeLimits(limits, indent) ==
    JsonObject([i \in 1..Len(LimitFields) |->
                   <<LimitFields[i], Display(limits[LimitFields[i]])>>], indent)

\* GpuReport without skip_serializing_if: an absent notes is written null.
SerializeGpuReport_null(report) ==
    << <<"adapter_info", SerializeAdapterInfo(report.adapter_info, "  ")>>,
       <<"limits", SerializeLimits(report.limits, "  ")>>,
       <<"notes", IF report.notes = None THEN "null"
                  ELSE JsonString(report.notes[1])>> >>

\* #[derive(Serialize)] struct GpuReport: the fields in declaration order;
\* notes is skipped when Option::is_none, and is a JSON string otherwise.
SerializeGpuReport(report) ==
    << <<"adapter_info", SerializeAdapterInfo(report.adapter_info, "  ")>>,
       <<"limits", SerializeLimits(report.limits, "  ")>> >>
    \o (IF report.notes = None THEN << >>
        ELSE << <<"notes", JsonString(report.notes[1])>> >>)

\* serde_json::to_string_pretty(&report), when it succeeds.
to_string_pretty(report) == JsonObject(SerializeGpuReport(report), "")

-----------------------------------------------------------------------------
(* The adapters a host may offer: what request_adapter, get_info and       *)
(* limits return.                                                          *)

NumAdapters == 17

Sample32 ==
    << U32(1), U32(8192), U32(0), U32(256), U32(1023), U32(1024), U32(1280),
       U32(1792), U32(1048575), U32(1048576), U32(134217728), U32(1073741823),
       U32(1073741824), U32(65536), U32(2147483647), <<0, 0, 0, 2>>,
       <<1023, 1023, 1023, 3>> >>

VendorSample ==
    << U32(4098), U32(4318), U32(32902), U32(5045), U32(20803), U32(4112),
       U32(65535), U32(0), U32(4097), U32(4099), U32(32903), U32(69634),
       U32(268566528), U32(11259375), <<0, 0, 0, 2>>, <<1023, 1023, 1023, 3>> >>

Pick(samples, k) == samples[(k % Len(samples)) + 1]

InfoOf(k) ==
    [name        |-> Pick(<<"Mock GPU", "NVIDIA GeForce RTX 3080",
                            "llvmpipe (LLVM 15.0.7, 256 bits)">>, k),
     backend     |-> Pick(<<"Vulkan", "Metal", "Dx12", "Gl", "BrowserWebGpu">>, k),
     vendor      |-> Pick(VendorSample, k),
     device      |-> Pick(Sample32, k),
     driver      |-> Pick(<<"mock", "NVIDIA", "">>, k),
     driver_info |-> Pick(<<"v1", "535.183.01", "Mesa 23.2.1", "">>, k)]

FieldIndex(f) == CHOOSE i \in 1..Len(LimitFields) : LimitFields[i] = f

LimitsOf(k) ==
    [f \in {LimitFields[i] : i \in 1..Len(LimitFields)} |->
        Pick(Sample32, k + FieldIndex(f) - 1)]

NoAdapter == [info |-> None, limits |-> None]

-----------------------------------------------------------------------------
(* fn main, from the request for an adapter on.                            *)

NotExited == -1

\* The writes the selected renderer makes, in order.
Writes(fmt, a) ==
    CASE fmt = "table"    -> print_table_output(a.info, a.limits)
      [] fmt = "markdown" -> print_markdown_output(a.info, a.limits)
      [] fmt = "json"     ->
            << to_string_pretty(GpuReport(a.info, a.limits, None)) >>

\* pollster::block_on(request_adapter(..)) returns Ok(adapter); get_info and
\* limits read its two records.
RequestAdapterOk ==
    /\ pc = "request_adapter"
    /\ \E k \in 0..(NumAdapters - 1) :
         adapter' = [info |-> InfoOf(k), limits |-> LimitsOf(k)]
    /\ attempts' = attempts + 1
    /\ pc' = "match_output"
    /\ UNCHANGED <<output, stdout, exit_code, call, ret>>

\* A failed request_adapter met by the title of the table and then the error.
RequestAdapterErr_AfterTitle ==
    /\ pc = "request_adapter"
    /\ attempts' = attempts + 1
    /\ stdout' = << "WGPU Adapter Info & Device Limits" >>
    /\ pc' = "exited"
    /\ exit_code' = 1
    /\ UNCHANGED <<output, adapter, call, ret>>

\* A failed request_adapter met by another request.
RequestAdapterErr_Retry ==
    /\ pc = "request_adapter"
    /\ attempts < 3
    /\ attempts' = attempts + 1
    /\ UNCHANGED <<output, pc, adapter, stdout, exit_code, call, ret>>

\* request_adapter fails: `?` returns the error from main.
RequestAdapterErr ==
    /\ pc = "request_adapter"
    /\ attempts' = attempts + 1
    /\ pc' = "exited"
    /\ exit_code' = 1
    /\ UNCHANGED <<output, adapter, stdout, call, ret>>

\* One println! of print_table_output.
PrintTable ==
    /\ pc = "match_output"
    /\ output = "table"
    /\ LET writes == Writes(output, adapter)
       IN  /\ Len(stdout) < Len(writes)
           /\ stdout' = Append(stdout, writes[Len(stdout) + 1])
    /\ UNCHANGED <<output, pc, attempts, adapter, exit_code, call, ret>>

\* One println! of print_markdown_output.
PrintMarkdown ==
    /\ pc = "match_output"
    /\ output = "markdown"
    /\ LET writes == Writes(output, adapter)
       IN  /\ Len(stdout) < Len(writes)
           /\ stdout' = Append(stdout, writes[Len(stdout) + 1])
    /\ UNCHANGED <<output, pc, attempts, adapter, exit_code, call, ret>>

\* The JSON arm: the report is serialized, then printed by one println!.
PrintJson ==
    /\ pc = "match_output"
    /\ output = "json"
    /\ stdout = << >>
    /\ stdout' = Writes(output, adapter)
    /\ UNCHANGED <<output, pc, attempts, adapter, exit_code, call, ret>>

\* The JSON arm: to_string_pretty fails, `?` returns the error from main
\* before println! runs.
ToStringPrettyErr ==
    /\ pc = "match_output"
    /\ output = "json"
    /\ stdout = << >>
    /\ pc' = "exited"
    /\ exit_code' = 1
    /\ UNCHANGED <<output, attempts, adapter, stdout, call, ret>>

\* The match arm has run to its end: Ok(()).
ReturnOk ==
    /\ pc = "match_output"
    /\ stdout = Writes(output, adapter)
    /\ pc' = "exited"
    /\ exit_code' = 0
    /\ UNCHANGED <<output, attempts, adapter, stdout, call, ret>>

NoCall == [fn |-> "none", arg |-> None]
NoRet == "<no return>"

Init ==
    /\ output \in {"table", "json", "markdown"}
    /\ pc = "request_adapter"
    /\ attempts = 0
    /\ adapter = NoAdapter
    /\ stdout = << >>
    /\ exit_code = NotExited
    /\ call = NoCall
    /\ ret = NoRet

Next ==
    \/ RequestAdapterOk
    \/ RequestAdapterErr
    \/ PrintTable
    \/ PrintMarkdown
    \/ PrintJson
    \/ ToStringPrettyErr
    \/ ReturnOk

Spec == Init /\ [][Next]_vars

-----------------------------------------------------------------------------
(* SpecFormat: the pure helpers applied to inputs from bounded sets.       *)

\* How far around a limb value of interest the inputs reach.
Spread == 1

Near(c) == {x \in Limb : c - Spread <= x /\ x <= c + Spread}

\* Limb values around the places where a tenth, a tie of the rounding or a
\* unit boundary falls.
LowLimbs == Near(0) \cup Near(256) \cup Near(512) \cup Near(768) \cup Near(1023)

\* u64 arguments: from 0 to 2^64 - 1, across every unit boundary and across
\* 2^53, where `as f64` starts to round.
U64Inputs ==
    {<<l1, l2, l3, l4, l5, l6, l7>> :
        l1 \in LowLimbs, l2 \in {0, 1, 256, 768, 1023}, l3 \in {0, 1, 1023},
        l4 \in {0, 1, 1023}, l5 \in {0, 1, 1023}, l6 \in {0, 7, 8, 1023},
        l7 \in {0, 15}}

\* u32 arguments: from 0 to 2^32 - 1.
U32Inputs ==
    {<<l1, l2, l3, l4>> :
        l1 \in LowLimbs, l2 \in {0, 1, 256, 768, 1023}, l3 \in {0, 1, 1023},
        l4 \in {0, 1, 3}}

\* Vendor IDs: the samples of the adapters and the u32 arguments.
VendorInputs == {VendorSample[i] : i \in 1..Len(VendorSample)} \cup U32Inputs

InitFormat ==
    /\ output = "table"
    /\ pc = "call"
    /\ attempts = 0
    /\ adapter = NoAdapter
    /\ stdout = << >>
    /\ exit_code = NotExited
    /\ \/ call \in [fn : {"pretty_format_u64"}, arg : U64Inputs]
       \/ call \in [fn : {"pretty_format_u32"}, arg : U32Inputs]
       \/ call \in [fn : {"vendor_to_string"}, arg : VendorInputs]
    /\ ret = NoRet

CallPrettyFormatU64 ==
    /\ pc = "call"
    /\ call.fn = "pretty_format_u64"
    /\ ret' = pretty_format_u64(call.arg)
    /\ pc' = "returned"
    /\ UNCHANGED <<output, attempts, adapter, stdout, exit_code, call>>

CallPrettyFormatU32 ==
    /\ pc = "call"
    /\ call.fn = "pretty_format_u32"
    /\ ret' = pretty_format_u32(call.arg)
    /\ pc' = "returned"
    /\ UNCHANGED <<output, attempts, adapter, stdout, exit_code, call>>

CallVendorToString ==
    /\ pc = "call"
    /\ call.fn = "vendor_to_string"
    /\ ret' = vendor_to_string(call.arg)
    /\ pc' = "returned"
    /\ UNCHANGED <<output, attempts, adapter, stdout, exit_code, call>>

NextFormat ==
    \/ CallPrettyFormatU64
    \/ CallPrettyFormatU32
    \/ CallVendorToString

SpecFormat == InitFormat /\ [][NextFormat]_vars

-----------------------------------------------------------------------------
(* Claims about the helpers, checked under SpecFormat.                     *)

\* The value of a limb sequence that is known to be small.
RECURSIVE IntOf(_)
IntOf(limbs) == IF limbs = << >> THEN 0 ELSE Head(limbs) + 1024 * IntOf(Tail(limbs))

\* The most significant non-zero limb of v, 0 for v = 0.
TopLimb(v) ==
    IF IsZero(v) THEN 0
    ELSE CHOOSE k \in 1..Len(v) : v[k] # 0 /\ \A j \in (k + 1)..Len(v) : v[j] = 0

\* The unit the claim assigns to v, a u64: its name and the number of
\* limbs below it (the unit is 1024^below).  2^40 = 1024^4 is reached when a
\* limb from the fifth on is non-zero, and so on down.
UnitOf(v) ==
    CASE TopLimb(v) >= 5 -> [name |-> "TB", below |-> 4]
      [] TopLimb(v) = 4  -> [name |-> "GB", below |-> 3]
      [] TopLimb(v) = 3  -> [name |-> "MB", below |-> 2]
      [] TopLimb(v) = 2  -> [name |-> "KB", below |-> 1]
      [] OTHER           -> [name |-> "B", below |-> 0]

\* floor(10 * v / unit): the tenths of v / unit, cut.
TenthsCut(v, below) == IntOf(SubSeq(MulSmall(v, 10), below + 1, Len(v) + 1))

\* |tenths / 10 - v / unit| <= 1/20, as |20 * v - 2 * tenths * unit| <= unit
\* on 9 limbs.
NearestTenth(v, below, tenths) ==
    LET a == MulSmall(v, 20) \o <<0>>
        b == Zeros(below) \o Limbs(2 * tenths, 9 - below)
        u == Zeros(below) \o <<1>> \o Zeros(8 - below)
    IN  GE(Add(b, u), a) /\ GE(Add(a, u), b)

OneDecimal(tenths, name) ==
    ToString(tenths \div 10) \o "." \o ToString(tenths % 10) \o " " \o name

\* str is what the claim prescribes for the u64 v.
IsPrettyOf(str, v) ==
    LET unit == UnitOf(v)
        cut  == TenthsCut(v, unit.below)
    IN  IF unit.name = "B" THEN str = ToString(v[1]) \o " B"
        ELSE \E tenths \in {cut, cut + 1} :
               /\ str = OneDecimal(tenths, unit.name)
               /\ (v[7] = 0 /\ v[6] < 8) => NearestTenth(v, unit.below, tenths)

\* C1: pretty_format picks the unit by the largest threshold n reaches
\* (2^40 TB, 2^30 GB, 2^20 MB, 2^10 KB, else "{n} B" without a decimal) and
\* shows n divided by that unit with one decimal place, the nearest tenth
\* (for n >= 2^53, where the conversion to f64 rounds n first, one of the two
\* tenths around the quotient); 1023 -> "1023 B", 1024 -> "1.0 KB",
\* 1048576 -> "1.0 MB", 2^40 -> "1.0 TB"; the u32 variant gives what the
\* u64 variant gives for the widened value.
C1_PrettyFormatUnits ==
    (pc = "returned" /\ call.fn \in {"pretty_format_u64", "pretty_format_u32"}) =>
        LET v == call.arg \o Zeros(7 - Len(call.arg))
        IN  /\ IsPrettyOf(ret, v)
            /\ v = <<1023, 0, 0, 0, 0, 0, 0>> => ret = "1023 B"
            /\ v = <<0, 1, 0, 0, 0, 0, 0>> => ret = "1.0 KB"
            /\ v = <<0, 0, 1, 0, 0, 0, 0>> => ret = "1.0 MB"
            /\ v = <<0, 0, 0, 0, 1, 0, 0>> => ret = "1.0 TB"
            /\ call.fn = "pretty_format_u32" => ret = pretty_format_u64(v)

C1_Witness ==
    /\ pc = "returned"
    /\ call = [fn |-> "pretty_format_u64", arg |-> <<0, 0, 0, 0, 1, 0, 0>>]
    /\ ret = "1.0 TB"

\* The vendor table of the claim: ID and display name.
VendorTable ==
    { <<4098, "AMD">>, <<4318, "NVIDIA">>, <<32902, "Intel">>, <<5045, "ARM">>,
      <<20803, "Qualcomm">>, <<4112, "ImgTec">> }

\* The value of an uppercase hexadecimal digit; 16 for any other character.
HexValue(c) ==
    IF \E d \in 0..15 : SubSeq("0123456789ABCDEF", d + 1, d + 1) = c
    THEN CHOOSE d \in 0..15 : SubSeq("0123456789ABCDEF", d + 1, d + 1) = c
    ELSE 16

\* The u32 that the digits 1..i of hex spell.
RECURSIVE ParseHex(_, _)
ParseHex(hex, i) ==
    IF i = 0 THEN U32(0)
    ELSE Add(SubSeq(MulSmall(ParseHex(hex, i - 1), 16), 1, 4),
             U32(HexValue(SubSeq(hex, i, i))))

\* str is "Unknown (0x<ID>)" with the ID in uppercase hexadecimal, without
\* leading zeros.
IsUnknownOf(str, id) ==
    /\ Len(str) >= 13
    /\ Len(str) <= 20
    /\ SubSeq(str, 1, 11) = "Unknown (0x"
    /\ SubSeq(str, Len(str), Len(str)) = ")"
    /\ LET hex == SubSeq(str, 12, Len(str) - 1)
       IN  /\ \A i \in 1..Len(hex) : HexValue(SubSeq(hex, i, i)) < 16
           /\ Len(hex) > 1 => SubSeq(hex, 1, 1) # "0"
           /\ ParseHex(hex, Len(hex)) = id

\* C2: vendor_to_string returns the table's name for the six listed IDs and
\* "Unknown (0x<ID>)", uppercase hexadecimal without leading zeros, for every
\* other ID; no other ID maps to a vendor name.
C2_VendorToString ==
    (pc = "returned" /\ call.fn = "vendor_to_string") =>
        /\ \A p \in VendorTable : call.arg = U32(p[1]) => ret = p[2]
        /\ (\A p \in VendorTable : call.arg # U32(p[1])) =>
               /\ IsUnknownOf(ret, call.arg)
               /\ \A p \in VendorTable : ret # p[2]
        /\ call.arg = U32(65535) => ret = "Unknown (0xFFFF)"

C2_Witness ==
    /\ pc = "returned"
    /\ call = [fn |-> "vendor_to_string", arg |-> U32(65535)]
    /\ ret = "Unknown (0xFFFF)"

-----------------------------------------------------------------------------
(* Claims about a run of main, checked under Spec.                         *)

StartsWith(text, prefix) ==
    Len(text) >= Len(prefix) /\ SubSeq(text, 1, Len(prefix)) = prefix

EndsWith(text, suffix) ==
    /\ Len(text) >= Len(suffix)
    /\ SubSeq(text, Len(text) - Len(suffix) + 1, Len(text)) = suffix

\* The places where pat occurs in text.
Occurrences(text, pat) ==
    {i \in 1..(Len(text) - Len(pat) + 1) : SubSeq(text, i, i + Len(pat) - 1) = pat}

\* The table of section 6 of the specification: the sections in order, each
\* with its keys.
Section6 ==
    << [section |-> "Adapter Information",
        keys |-> <<"Name", "Backend", "Vendor", "Device ID", "Driver",
                   "Driver Info">>],
       [section |-> "Texture Limits",
        keys |-> <<"Max 1D Texture Size", "Max 2D Texture Size",
                   "Max 3D Texture Size", "Max Array Layers">>],
       [section |-> "Binding Limits",
        keys |-> <<"Max Bind Groups", "Max Bindings/Group",
                   "Max Dynamic Uniform Buffers", "Max Dynamic Storage Buffers">>],
       [section |-> "Resource Limits",
        keys |-> <<"Max Sampled Textures", "Max Samplers", "Max Storage Buffers",
                   "Max Storage Textures", "Max Uniform Buffers">>],
       [section |-> "Buffer Limits",
        keys |-> <<"Max Uniform Buffer Size", "Max Storage Buffer Size",
                   "Min Uniform Alignment", "Min Storage Alignment">>],
       [section |-> "Vertex Limits",
        keys |-> <<"Max Vertex Buffers", "Max Vertex Attributes",
                   "Max Vertex Stride">>],
       [section |-> "Compute Limits",
        keys |-> <<"Max Workgroup Size X", "Max Workgroup Size Y",
                   "Max Workgroup Size Z", "Max Workgroup Invocations",
                   "Max Workgroup Storage", "Max Workgroups/Dimension">>],
       [section |-> "Miscellaneous Limits",
        keys |-> <<"Max Push Constant Size", "Max Inter-Stage Components">>] >>

KeysOf(sec) == {Section6[sec].keys[i] : i \in 1..Len(Section6[sec].keys)}
AdapterKeys == KeysOf(1)
LimitKeys == UNION {KeysOf(sec) : sec \in 2..Len(Section6)}
AllKeys == AdapterKeys \cup LimitKeys

\* The limit keys in the order of the table, and the field each one shows: the
\* n-th limit key shows the n-th field of LimitFields.
RECURSIVE LimitKeysFrom(_)
LimitKeysFrom(sec) ==
    IF sec > Len(Section6) THEN << >>
    ELSE Section6[sec].keys \o LimitKeysFrom(sec + 1)

FieldOfKey(key) ==
    LimitFields[CHOOSE i \in 1..Len(LimitFields) : LimitKeysFrom(2)[i] = key]

\* line is the row of key in the output of the renderer fmt: in the table
\* the key and a colon, padded to the column of the values; in markdown the
\* two cells of a table row, the value between code marks.
IsRow(fmt, line, key) ==
    IF fmt = "table"
    THEN StartsWith(line, PadRight(key \o ":", 30) \o " ")
    ELSE StartsWith(line, "| " \o key \o " | '") /\ EndsWith(line, "' |")

\* The value text of a row.
RowValue(fmt, line, key) ==
    IF fmt = "table" THEN SubSeq(line, 32, Len(line))
    ELSE SubSeq(line, Len(key) + 7, Len(line) - 3)

RowsOf(fmt, out, key) == {i \in 1..Len(out) : IsRow(fmt, out[i], key)}

\* The value of the only row of key.
ValueOf(fmt, out, key) ==
    RowValue(fmt, out[CHOOSE i \in RowsOf(fmt, out, key) : TRUE], key)

\* The run has ended with exit code 0 under the renderer fmt.
Done(fmt) == pc = "exited" /\ exit_code = 0 /\ output = fmt

\* The value of a decimal digit; 10 for any other character.
DigitValue(c) ==
    IF \E d \in 0..9 : ToString(d) = c THEN CHOOSE d \in 0..9 : ToString(d) = c
    ELSE 10

\* The number that the digits 1..i of str spell, on 4 limbs (the top limb
\* takes what exceeds 32 bits).
RECURSIVE ParseDecimal(_, _)
ParseDecimal(str, i) ==
    IF i = 0 THEN U32(0)
    ELSE LET m == MulSmall(ParseDecimal(str, i - 1), 10)
         IN  Add(<<m[1], m[2], m[3], m[4] + 1024 * m[5]>>,
                 U32(DigitValue(SubSeq(str, i, i))))

\* str is the bare decimal integer n.
IsDecimalOf(str, n) ==
    /\ Len(str) >= 1
    /\ Len(str) <= 10
    /\ \A i \in 1..Len(str) : DigitValue(SubSeq(str, i, i)) < 10
    /\ Len(str) > 1 => SubSeq(str, 1, 1) # "0"
    /\ ParseDecimal(str, Len(str)) = n

C4_ExitCode ==
    /\ exit_code \in {NotExited, 0, 1}
    /\ attempts <= 1
    /\ pc = "exited" <=> exit_code # NotExited
    /\ pc = "exited" => attempts = 1
    /\ exit_code = 0 <=>
          /\ pc = "exited"
          /\ adapter # NoAdapter
          /\ stdout = Writes(output, adapter)
    /\ (pc = "exited" /\ adapter = NoAdapter) => exit_code = 1
    /\ (exit_code = 1 /\ adapter # NoAdapter) => (output = "json" /\ stdout = << >>)

\* A failed acquisition under the markdown format.
C4_Witness ==
    /\ pc = "exited"
    /\ exit_code = 1
    /\ output = "markdown"
    /\ adapter = NoAdapter
    /\ attempts = 1

\* The times key appears in the output of a finished run: as a row key of
\* the table or of markdown, as a member name of the JSON text.
KeyCount(fmt, out, key) ==
    IF fmt = "json" THEN Cardinality(Occurrences(out[1], JsonString(key) \o ": "))
    ELSE Cardinality(RowsOf(fmt, out, key))

KeyRows(fmt, out) == {i \in 1..Len(out) : \E key \in AllKeys : IsRow(fmt, out[i], key)}

C6_NotesAbsent ==
    (output = "json" /\ stdout # << >>) =>
        /\ stdout[1] = "{\n  \"adapter_info\": "
                       \o SerializeAdapterInfo(adapter.info, "  ")
                       \o ",\n  \"limits\": "
                       \o SerializeLimits(adapter.limits, "  ")
                       \o "\n}"
        /\ Occurrences(stdout[1], "notes") = {}
        /\ Occurrences(stdout[1], "null") = {}
        /\ Cardinality(Occurrences(stdout[1], "\n  \"")) = 2

C6_Witness ==
    /\ Done("json")
    /\ StartsWith(stdout[1], "{\n  \"adapter_info\": {")

ByteKeys ==
    {"Max Uniform Buffer Size", "Max Storage Buffer Size", "Max Workgroup Storage",
     "Max Push Constant Size"}

BytesSuffixKeys == {"Min Uniform Alignment", "Min Storage Alignment", "Max Vertex Stride"}

\* str is n as a bare integer followed by " bytes".
IsBytesOf(str, n) ==
    /\ EndsWith(str, " bytes")
    /\ IsDecimalOf(SubSeq(str, 1, Len(str) - 6), n)

\* C7: in the table output the four byte-valued rows show the byte-size
\* formatter's output of their field, the three alignment and stride rows
\* the integer followed by " bytes", every other limit row the bare integer.
C7_TableValues ==
    Done("table") =>
        \A key \in LimitKeys :
            LET field == adapter.limits[FieldOfKey(key)]
                value == ValueOf("table", stdout, key)
            IN  /\ Cardinality(RowsOf("table", stdout, key)) = 1
                /\ key \in ByteKeys => IsPrettyOf(value, field \o <<0, 0, 0>>)
                /\ key \in BytesSuffixKeys => IsBytesOf(value, field)
                /\ key \notin ByteKeys \cup BytesSuffixKeys => IsDecimalOf(value, field)

\* A table whose push-constant size is above a unit boundary.
C7_Witness ==
    /\ Done("table")
    /\ adapter.limits.max_push_constant_size = U32(1048576)
    /\ ValueOf("table", stdout, "Max Push Constant Size") = "1.0 MB"

\* The other renderer's output for the records of this run.
OtherOutput(fmt) ==
    IF fmt = "table" THEN print_markdown_output(adapter.info, adapter.limits)
    ELSE print_table_output(adapter.info, adapter.limits)

OtherFormat(fmt) == IF fmt = "table" THEN "markdown" ELSE "table"

\* The table and the markdown value of key for the records of this run, the
\* one taken from what the run wrote, the other from the other renderer.
ValuePair(fmt, key) ==
    LET mine  == ValueOf(fmt, stdout, key)
        other == ValueOf(OtherFormat(fmt), OtherOutput(fmt), key)
    IN  IF fmt = "table" THEN [table |-> mine, markdown |-> other]
        ELSE [table |-> other, markdown |-> mine]

\* C8: for the same records the markdown renderer and the table renderer
\* give every key the same value text, except Max Push Constant Size, which
\* markdown writes as "{n} bytes" and the table through the byte-size
\* formatter; those two texts differ.
C8_MarkdownVsTable ==
    \A fmt \in {"table", "markdown"} :
        Done(fmt) =>
            \A key \in AllKeys :
                LET v == ValuePair(fmt, key)
                IN  IF key = "Max Push Constant Size"
                    THEN /\ IsBytesOf(v.markdown, adapter.limits.max_push_constant_size)
                         /\ IsPrettyOf(v.table,
                                adapter.limits.max_push_constant_size \o <<0, 0, 0>>)
                         /\ v.markdown # v.table
                    ELSE v.markdown = v.table

C8_Witness ==
    /\ Done("markdown")
    /\ ValueOf("markdown", stdout, "Max Push Constant Size") = "1048576 bytes"
    /\ ValueOf("markdown", stdout, "Max Workgroup Storage") = "1.8 KB"

\* The display name the vendor table of the claim gives id.
IsVendorNameOf(str, id) ==
    IF \E p \in VendorTable : id = U32(p[1])
    THEN \E p \in VendorTable : id = U32(p[1]) /\ str = p[2]
    ELSE IsUnknownOf(str, id)

\* The text of the number after the member name in a JSON text: from behind
\* "name": to the next comma.
JsonNumberAfter(text, name) ==
    LET at    == CHOOSE i \in Occurrences(text, JsonString(name) \o ": ") : TRUE
        first == at + Len(name) + 4
        last  == CHOOSE j \in first..Len(text) :
                    /\ SubSeq(text, j + 1, j + 1) = ","
                    /\ \A k \in first..j : SubSeq(text, k, k) # ","
    IN  SubSeq(text, first, last)

\* C9: the Vendor row of the table and of markdown shows the vendor's
\* display name; the JSON output has the vendor ID as a number, unresolved.
C9_VendorResolution ==
    /\ \A fmt \in {"table", "markdown"} :
          Done(fmt) =>
             /\ Cardinality(RowsOf(fmt, stdout, "Vendor")) = 1
             /\ IsVendorNameOf(ValueOf(fmt, stdout, "Vendor"), adapter.info.vendor)
    /\ Done("json") =>
          /\ Cardinality(Occurrences(stdout[1], "\"vendor\": ")) = 1
          /\ IsDecimalOf(JsonNumberAfter(stdout[1], "vendor"), adapter.info.vendor)
          /\ adapter.info.vendor = U32(4098) =>
                Occurrences(stdout[1], "\"vendor\": 4098,") # {}

C9_Witness ==
    /\ Done("json")
    /\ adapter.info.vendor = U32(4098)
    /\ Occurrences(stdout[1], "\"vendor\": 4098,") # {}
    /\ Occurrences(stdout[1], "AMD") = {}

\* The first line of a report.
TitleOf(fmt) ==
    IF fmt = "table" THEN "WGPU Adapter Info & Device Limits"
    ELSE "## WGPU Adapter Information\n"

\* The header line of section sec: in the table the section's name after an
\* empty line; in markdown a level-3 heading for the limit sections, and for
\* the adapter rows the heading that opens the report.
HeaderOf(fmt, sec) ==
    IF fmt = "table" THEN "\n" \o Section6[sec].section
    ELSE IF sec = 1 THEN "## WGPU " \o Section6[sec].section \o "\n"
    ELSE "### " \o Section6[sec].section \o "\n"

HeaderLines(fmt, out, sec) == {i \in 1..Len(out) : out[i] = HeaderOf(fmt, sec)}

\* The section that the line i of out stands under: the one of the last
\* header at or before i; 0 before the first header.
SectionAt(fmt, out, i) ==
    LET opened == {sec \in 1..Len(Section6) :
                      \E h \in HeaderLines(fmt, out, sec) : h <= i}
    IN  IF opened = {} THEN 0
        ELSE CHOOSE sec \in opened :
                \A other \in opened :
                    \A h \in HeaderLines(fmt, out, other) :
                        \E g \in HeaderLines(fmt, out, sec) : h <= g

\* The section under which out has the row of key.
SectionOfKey(fmt, out, key) ==
    SectionAt(fmt, out, CHOOSE i \in RowsOf(fmt, out, key) : TRUE)

\* What has been written so far keeps the order of section 6.
InOrder(fmt, out) ==
    /\ out[1] = TitleOf(fmt)
    /\ \A sec \in 1..Len(Section6) :
          /\ Cardinality(HeaderLines(fmt, out, sec)) <= 1
          /\ \A h \in HeaderLines(fmt, out, sec) :
                \* after the title, after the header and all the rows of
                \* every earlier section
                /\ h >= 1
                /\ fmt = "table" => h > 1
                /\ \A prev \in 1..(sec - 1) :
                      /\ \E g \in HeaderLines(fmt, out, prev) : g < h
                      /\ \A key \in KeysOf(prev) :
                            \E r \in RowsOf(fmt, out, key) : r < h
          \* the rows of the section, in the order of the table, under its
          \* header and nowhere else
          /\ \A k \in 1..Len(Section6[sec].keys) :
                \A r \in RowsOf(fmt, out, Section6[sec].keys[k]) :
                    /\ SectionAt(fmt, out, r) = sec
                    /\ \E h \in HeaderLines(fmt, out, sec) : h < r
                    /\ \A j \in 1..(k - 1) :
                          \E q \in RowsOf(fmt, out, Section6[sec].keys[j]) : q < r

\* C10: at every moment of a table or markdown run the lines written so far
\* are in the fixed order: the title first, the eight sections in the order
\* of section 6, each header before its rows and after the rows of the
\* section before it, each row under the section that section 6 gives its
\* key; a finished report has all eight headers, and the two renderers put
\* every key under the same section.
C10_FixedOrder ==
    \A fmt \in {"table", "markdown"} :
        /\ (output = fmt /\ stdout # << >>) => InOrder(fmt, stdout)
        /\ Done(fmt) =>
              /\ \A sec \in 1..Len(Section6) :
                    Cardinality(HeaderLines(fmt, stdout, sec)) = 1
              /\ InOrder(OtherFormat(fmt), OtherOutput(fmt))
              /\ \A sec \in 1..Len(Section6) :
                    \A key \in KeysOf(sec) :
                        /\ SectionOfKey(fmt, stdout, key) = sec
                        /\ SectionOfKey(OtherFormat(fmt), OtherOutput(fmt), key) = sec

\* A finished markdown report: the vertex rows stand under Vertex Limits,
\* after the buffer rows.
C10_Witness ==
    /\ Done("markdown")
    /\ SectionOfKey("markdown", stdout, "Max Vertex Stride") = 6
    /\ SectionOfKey("markdown", stdout, "Min Storage Alignment") = 5
    /\ \E h \in HeaderLines("markdown", stdout, 6) :
          \E r \in RowsOf("markdown", stdout, "Min Storage Alignment") : r < h

=============================================================================
